---- MODULE Spec2Model ----
(***************************************************************************)
(* Model of the metrics engine of osbuild/metrics (src/ibmetrics/metrics.py *)
(* and its callers in src/ibmetrics/plot.py, src/report.py).                *)
(*                                                                          *)
(* Time is an integer number of ticks since midnight of 1 December 2023;    *)
(* a day has TicksPerDay ticks; NaT is the missing timestamp.  A dataset    *)
(* (pandas.DataFrame) is a sequence of records [org_id, created_at,         *)
(* job_id], with image_type where footprints is concerned.  Each metric is  *)
(* a pure function of the dataset, computed here the way the code computes  *)
(* it.  The engine is synchronous and single-threaded: a call action runs   *)
(* one function on the dataset and records its arguments, the local values  *)
(* of interest and the return value (a record named after the returned      *)
(* variables); Return ends the call.  The loop of weekly_users is taken one *)
(* iteration at a time.                                                     *)
(*                                                                          *)
(* Spec runs the metrics on datasets of valid records, EdgeSpec runs the    *)
(* bucketing and window functions on datasets that may be empty or hold     *)
(* records without a timestamp, FootprintSpec runs the categorical mapper.  *)
(***************************************************************************)
EXTENDS Integers, Sequences, FiniteSets

VARIABLES builds, fn, args, locals, ret

vars == <<builds, fn, args, locals, ret>>

(* ------------------------------ bounds --------------------------------- *)

\* records per enumerated dataset
MaxBuilds == 3
\* time resolution: ticks per day
TicksPerDay == 2
\* largest min_builds passed to repeat_orgs
MaxMinBuilds == 3
\* largest small period (in ticks) passed to repeat_orgs
MaxPeriod == 3
\* largest sliding-window width (days)
MaxWindow == 2
\* largest min_days passed to active_orgs
MaxMinDays == 2
\* largest recent_limit (days) passed to active_orgs
MaxRecentLimit == 2

(* ------------------------------ calendar -------------------------------- *)

\* tick 0 is midnight of the first day of this month
Epoch == [year |-> 2023, month |-> 12]

IsLeap(y) == (y % 4 = 0 /\ y % 100 # 0) \/ y % 400 = 0

DaysInMonth(y, m) ==
    IF m = 2 THEN (IF IsLeap(y) THEN 29 ELSE 28)
    ELSE IF m \in {4, 6, 9, 11} THEN 30 ELSE 31

NextMonth(ym) ==
    IF ym.month = 12 THEN [year |-> ym.year + 1, month |-> 1]
    ELSE [year |-> ym.year, month |-> ym.month + 1]

\* the civil date [year, month, day] of day number d, walking the months
\* from `cur`, whose first day is day number `first`
RECURSIVE CivilFrom(_, _, _)
CivilFrom(d, cur, first) ==
    LET n == DaysInMonth(cur.year, cur.month) IN
    IF d < first + n
    THEN [year |-> cur.year, month |-> cur.month, day |-> d - first + 1]
    ELSE CivilFrom(d, NextMonth(cur), first + n)

\* day number of the first day of month ym, walking from `cur`
RECURSIVE MonthStartFrom(_, _, _)
MonthStartFrom(ym, cur, first) ==
    IF cur = ym THEN first
    ELSE MonthStartFrom(ym, NextMonth(cur),
                        first + DaysInMonth(cur.year, cur.month))

DayOf(t) == t \div TicksPerDay
TimeOfDay(t) == t % TicksPerDay
DayTick(d, k) == d * TicksPerDay + k

\* Timestamp.year, Timestamp.month, Timestamp.day
Civil(t) == CivilFrom(DayOf(t), Epoch, 0)

\* pandas.Timestamp(year=y, month=m, day=d): midnight of that date
Timestamp(y, m, d) ==
    DayTick(MonthStartFrom([year |-> y, month |-> m], Epoch, 0) + d - 1, 0)

\* t + pandas.DateOffset(months=1): same day of the next month, clamped to
\* that month's last day, same time of day
AddMonth(t) ==
    LET c  == Civil(t)
        nm == NextMonth([year |-> c.year, month |-> c.month])
        dim == DaysInMonth(nm.year, nm.month)
        d  == IF c.day > dim THEN dim ELSE c.day
    IN  Timestamp(nm.year, nm.month, d) + TimeOfDay(t)

\* pandas.Timedelta(days=n)
Days(n) == n * TicksPerDay

(* ------------------------------ datasets -------------------------------- *)

Orgs == {"a", "b"}

\* the created_at values of the enumerated datasets: 31 Dec 12:00,
\* 1 Jan 00:00, 1 Jan 12:00 (second tick of the day), 3 Jan 00:00, 1 Feb 00:00
Times == {DayTick(30, 1), DayTick(31, 0), DayTick(31, 1), DayTick(33, 0),
          DayTick(62, 0)}

\* a dataset built from (org_id, created_at) pairs; job_id is unique per record
MkBuilds(rows) ==
    [i \in 1..Len(rows) |->
        [org_id |-> rows[i][1], created_at |-> rows[i][2], job_id |-> i]]

RowSeqs(n) == [1..n -> Orgs \X Times]

Datasets == UNION {{MkBuilds(r) : r \in RowSeqs(n)} : n \in 1..MaxBuilds}

(* ------------------------------ helpers --------------------------------- *)

Range(s) == {s[i] : i \in 1..Len(s)}

SetMin(S) == CHOOSE x \in S : \A y \in S : x <= y

SetMax(S) == CHOOSE x \in S : \A y \in S : x >= y

\* pandas.NaT, the missing timestamp (a created_at that could not be read);
\* every valid timestamp of the model is a tick number >= 0
NaT == -1

\* a < b, a >= b on timestamps: a comparison with NaT is False
Lt(a, b) == a # NaT /\ b # NaT /\ a < b
Ge(a, b) == a # NaT /\ b # NaT /\ a >= b

\* t + d for a timedelta d: NaT + d is NaT
Plus(t, d) == IF t = NaT THEN NaT ELSE t + d

\* the valid (not NaT) values of the created_at column
ValidCreated(df) == {df[i].created_at : i \in 1..Len(df)} \ {NaT}

\* mutant of MinCreated: NaT is not skipped (skipna=False), the minimum of a
\* column that holds a NaT is NaT
MinCreatedNoSkip(df) ==
    IF \A i \in 1..Len(df) : df[i].created_at # NaT
    THEN (IF ValidCreated(df) = {} THEN NaT ELSE SetMin(ValidCreated(df)))
    ELSE NaT

\* Series.min(), Series.max() of the created_at column: NaT is skipped
\* (skipna), and the result is NaT when no valid value is left
MinCreated(df) ==
    IF ValidCreated(df) = {} THEN NaT ELSE SetMin(ValidCreated(df))
MaxCreated(df) ==
    IF ValidCreated(df) = {} THEN NaT ELSE SetMax(ValidCreated(df))

Column(df, column) == [i \in 1..Len(df) |-> df[i][column]]

\* df.loc[mask]: the rows whose index is in idxs, in their order
Loc(s, idxs) ==
    LET I == idxs \cap (1..Len(s)) IN
    [k \in 1..Cardinality(I) |->
        s[CHOOSE i \in I : Cardinality({j \in I : j <= i}) = k]]

\* Series.unique(): the distinct values in order of first appearance
Unique(s) ==
    Loc(s, {i \in 1..Len(s) : \A j \in 1..(i - 1) : s[j] # s[i]})

\* mutant of NUnique: the rows are counted, not the distinct values
NRows(s) == Len(s)

\* Series.nunique()
NUnique(s) == Cardinality(Range(s))

\* Series.sort_values(): ascending; equal values keep their order
SortValues(s) ==
    LET Rank(i) ==
            Cardinality({j \in 1..Len(s) : s[j] < s[i] \/ (s[j] = s[i] /\ j <= i)})
    IN  [k \in 1..Len(s) |-> s[CHOOSE i \in 1..Len(s) : Rank(i) = k]]

\* np.diff(a): a[1:] - a[:-1]
Diff(s) ==
    IF Len(s) <= 1 THEN <<>> ELSE [i \in 1..(Len(s) - 1) |-> s[i + 1] - s[i]]

\* a[lo:hi] for 0 <= lo <= hi (0-based, end exclusive, cut at the length)
Slice(s, lo, hi) ==
    LET h == IF hi > Len(s) THEN Len(s) ELSE hi IN
    IF lo >= h THEN <<>> ELSE [i \in 1..(h - lo) |-> s[lo + i]]

\* np.sum(a); the sum of no timedeltas is the zero timedelta
RECURSIVE SumRange(_, _, _)
SumRange(s, lo, hi) ==
    IF lo > hi THEN 0
    ELSE IF lo = hi THEN s[lo]
    ELSE LET mid == (lo + hi) \div 2 IN
         SumRange(s, lo, mid) + SumRange(s, mid + 1, hi)

Sum(s) == SumRange(s, 1, Len(s))

(* ------------------------------ repeat_orgs ----------------------------- *)

\* the inner loop of repeat_orgs: for p_idx, _ in enumerate(periods)
RepeatOrgHit(periods, min_builds, pd_period) ==
    \E p_idx \in 0..(Len(periods) - 1) :
        Sum(Slice(periods, p_idx, p_idx + min_builds - 1)) < pd_period

\* the sorted build dates of one org
OrgBuildDates(df, org) ==
    SortValues(Loc(Column(df, "created_at"),
                   {i \in 1..Len(df) : df[i].org_id = org}))

repeat_orgs(df, min_builds, period) ==
    [rep_orgs |->
        {org \in Range(Unique(Column(df, "org_id"))) :
            RepeatOrgHit(Diff(OrgBuildDates(df, org)), min_builds, period)}]

(* ------------------------------ monthly_value --------------------------- *)

\* start of month of first data point (metrics.py line 64)
MonthStart(t_start) == Timestamp(Civil(t_start).year, Civil(t_start).month, 1)

\* mutant of MonthEnd: the month offset is forgotten
MonthEndNoOffset(t_end) ==
    Timestamp(Civil(t_end).year, Civil(t_end).month, 1)

\* start of month following last data point (line 68)
MonthEnd(t_end) ==
    AddMonth(Timestamp(Civil(t_end).year, Civil(t_end).month, 1))

\* mutant of MonthIdxs: the upper end of the month is included
MonthIdxsClosed(df, m_current) ==
    {i \in 1..Len(df) :
        /\ Ge(df[i].created_at, m_current)
        /\ (Lt(df[i].created_at, AddMonth(m_current))
                \/ df[i].created_at = AddMonth(m_current))}

\* the rows of the month starting at m_current (line 74)
MonthIdxs(df, m_current) ==
    {i \in 1..Len(df) :
        /\ Ge(df[i].created_at, m_current)
        /\ Lt(df[i].created_at, AddMonth(m_current))}

\* the while loop of monthly_value
RECURSIVE MonthLoop(_, _, _, _, _, _)
MonthLoop(df, column, m_current, m_end, n_values, month_starts) ==
    IF m_current < m_end
    THEN MonthLoop(df, column, AddMonth(m_current), m_end,
                   Append(n_values,
                          NUnique(Loc(Column(df, column), MonthIdxs(df, m_current)))),
                   Append(month_starts, m_current))
    ELSE [raised |-> "none", n_values |-> n_values, month_starts |-> month_starts]

\* NaT.year and NaT.month are nan, which pandas.Timestamp(year=..., month=...)
\* refuses with a TypeError (lines 64, 68)
monthly_value(df, column) ==
    IF MinCreated(df) = NaT
    THEN [raised |-> "TypeError", n_values |-> <<>>, month_starts |-> <<>>]
    ELSE MonthLoop(df, column, MonthStart(MinCreated(df)),
                   MonthEnd(MaxCreated(df)), <<>>, <<>>)

monthly_users(df) == monthly_value(df, "org_id")

monthly_builds(df) == monthly_value(df, "job_id")

(* ------------------------------ monthly_new_users ----------------------- *)

\* mutant of FirstDate: the latest date of the org is taken
LastDate(df, org_id) ==
    SetMax({df[i].created_at : i \in {j \in 1..Len(df) : df[j].org_id = org_id}})

\* the first build date of one org (lines 107-108)
FirstDate(df, org_id) ==
    SetMin({df[i].created_at : i \in {j \in 1..Len(df) : df[j].org_id = org_id}})

\* the reduced dataset: one row per org of builds["org_id"].unique()
FirstBuilds(df) ==
    LET orgs == Unique(Column(df, "org_id")) IN
    [k \in 1..Len(orgs) |->
        [org_id |-> orgs[k], created_at |-> FirstDate(df, orgs[k])]]

monthly_new_users(df) == monthly_users(FirstBuilds(df))

(* ------------------------------ value_sliding_window -------------------- *)

\* the rows of the window ending at t_current (line 131)
WindowIdxs(df, t_current, window) ==
    {i \in 1..Len(df) :
        /\ Ge(df[i].created_at, Plus(t_current, 0 - window))
        /\ Lt(df[i].created_at, t_current)}

\* mutant of FirstWindowEnd: the scan starts before a full window exists
FirstWindowEndAtStart(t_start, window) == t_start

\* the first window end: start with a full window (line 129)
FirstWindowEnd(t_start, window) == Plus(t_start, window)

\* the while loop of value_sliding_window
RECURSIVE WindowLoop(_, _, _, _, _, _, _)
WindowLoop(df, column, window, t_current, t_end, n_values, end_dates) ==
    IF Lt(t_current, t_end)
    THEN WindowLoop(df, column, window, Plus(t_current, Days(1)), t_end,
                    Append(n_values,
                           NUnique(Loc(Column(df, column),
                                       WindowIdxs(df, t_current, window)))),
                    Append(end_dates, t_current))
    ELSE [raised |-> "none", n_values |-> n_values, end_dates |-> end_dates]

value_sliding_window(df, column, window) ==
    WindowLoop(df, column, Days(window),
               FirstWindowEnd(MinCreated(df), Days(window)), MaxCreated(df),
               <<>>, <<>>)

(* ------------------------------ monthly_users_stacked ------------------- *)

\* a - b on one-dimensional numpy arrays: elementwise, a length-1 array is
\* broadcast, any other pair of different lengths raises ValueError
ArraySub(a, b) ==
    IF Len(a) = Len(b)
    THEN [raised |-> "none", value |-> [i \in 1..Len(a) |-> a[i] - b[i]]]
    ELSE IF Len(b) = 1
    THEN [raised |-> "none", value |-> [i \in 1..Len(a) |-> a[i] - b[1]]]
    ELSE IF Len(a) = 1
    THEN [raised |-> "none", value |-> [i \in 1..Len(b) |-> a[1] - b[i]]]
    ELSE [raised |-> "ValueError", value |-> <<>>]

\* the values monthly_users_stacked hands to the bar plot (plot.py 69-73)
monthly_users_stacked(df) ==
    LET users == monthly_users(df)
        new   == monthly_new_users(df)
        old   == ArraySub(users.n_values, new.n_values)
    IN  [raised |-> old.raised,
         user_counts |-> users.n_values,
         new_user_counts |-> new.n_values,
         months |-> new.month_starts,
         old_user_counts |-> old.value]

(* ------------------------------ active_orgs ----------------------------- *)

\* astype("datetime64[D]"): round down to the day
RoundToDay(t) == DayOf(t)

\* np.unique(a): the sorted distinct values
NpUnique(S) ==
    [k \in 1..Cardinality(S) |->
        CHOOSE x \in S : Cardinality({y \in S : y <= x}) = k]

\* org_build_days: one row per org with the days it built on
org_build_days(df) ==
    LET orgs == Unique(Column(df, "org_id")) IN
    [k \in 1..Len(orgs) |->
        [org_id |-> orgs[k],
         build_dates |->
            NpUnique({RoundToDay(df[i].created_at) :
                        i \in {j \in 1..Len(df) : df[j].org_id = orgs[k]}})]]

\* counts >= min_days (line 198)
EnoughDays(build_dates, min_days) == Len(build_dates) >= min_days

\* mutant of IsRecent: a most recent day equal to the cutoff is accepted
IsRecentOrAtCutoff(build_dates, now, recent_limit) ==
    DayTick(SetMax(Range(build_dates)), 0) >= now - Days(recent_limit)

\* most_recent_dates > cutoff (lines 199-201): the day is its midnight
IsRecent(build_dates, now, recent_limit) ==
    DayTick(SetMax(Range(build_dates)), 0) > now - Days(recent_limit)

\* `now` stands for datetime.now()
active_orgs(df, min_days, recent_limit, now) ==
    LET build_days == org_build_days(df)
        kept == {k \in 1..Len(build_days) :
                    EnoughDays(build_days[k].build_dates, min_days)}
        recent == {k \in kept :
                    IsRecent(build_days[k].build_dates, now, recent_limit)}
    IN  [recent_orgs |-> Loc(Column(build_days, "org_id"), recent)]

(* ------------------------------ fixed-period buckets -------------------- *)

\* mutant of PeriodIdxs: the upper end of the bucket is included
PeriodIdxsClosed(df, t_start, period) ==
    {i \in 1..Len(df) :
        /\ Ge(df[i].created_at, t_start)
        /\ (Lt(df[i].created_at, Plus(t_start, period))
                \/ df[i].created_at = Plus(t_start, period))}

\* the rows of the bucket [t_start, t_start + period)
\* (report.py lines 38, 52; metrics.py line 145)
PeriodIdxs(df, t_start, period) ==
    {i \in 1..Len(df) :
        /\ Ge(df[i].created_at, t_start)
        /\ Lt(df[i].created_at, Plus(t_start, period))}

\* sum(idxs): the number of selected rows
SumIdxs(df, idxs) == Cardinality(idxs \cap (1..Len(df)))

\* len(set(builds["org_id"].loc[idxs]))
LenSetOrgs(df, idxs) == Cardinality(Range(Loc(Column(df, "org_id"), idxs)))

\* mutant of PeriodContinues: a bucket is emitted whenever it starts before end
PeriodContinuesToStart(t_start, period, end) == Lt(t_start, end)

\* mutant of PeriodContinues: a bucket that ends exactly at end is emitted
PeriodContinuesToEnd(t_start, period, end) ==
    Lt(Plus(t_start, period), end) \/ (end # NaT /\ Plus(t_start, period) = end)

\* the loop condition: while t_start+period < end
PeriodContinues(t_start, period, end) == Lt(Plus(t_start, period), end)

\* the while loop of the three fixed-period functions; kind says what is
\* counted per bucket
RECURSIVE PeriodLoop(_, _, _, _, _, _, _)
PeriodLoop(df, kind, t_start, end, period, bin_starts, counts) ==
    IF PeriodContinues(t_start, period, end)
    THEN PeriodLoop(df, kind, Plus(t_start, period), end, period,
                    Append(bin_starts, t_start),
                    Append(counts,
                           IF kind = "builds"
                           THEN SumIdxs(df, PeriodIdxs(df, t_start, period))
                           ELSE LenSetOrgs(df, PeriodIdxs(df, t_start, period))))
    ELSE [raised |-> "none", halts |-> TRUE,
          bin_starts |-> bin_starts, counts |-> counts]

\* The loop for any period.  With period <= 0 the loop, once entered, is
\* never left by its condition, since t_start does not grow: with period = 0
\* nothing changes and the call does not end; with period < 0 t_start falls
\* until t_start + period leaves the range of the timestamp type, which
\* raises OverflowError.
FixedPeriodLoop(df, kind, start, end, period) ==
    IF period > 0 \/ ~PeriodContinues(start, period, end)
    THEN PeriodLoop(df, kind, start, end, period, <<>>, <<>>)
    ELSE IF period < 0
    THEN [raised |-> "OverflowError", halts |-> TRUE,
          bin_starts |-> <<>>, counts |-> <<>>]
    ELSE [raised |-> "none", halts |-> FALSE,
          bin_starts |-> <<>>, counts |-> <<>>]

\* report.py builds_over_time
report_builds_over_time(df, start, end, period) ==
    LET r == FixedPeriodLoop(df, "builds", start, end, period) IN
    [raised |-> r.raised, halts |-> r.halts,
     bin_starts |-> r.bin_starts, n_builds |-> r.counts]

\* report.py users_over_time
users_over_time(df, start, end, period) ==
    LET r == FixedPeriodLoop(df, "users", start, end, period) IN
    [raised |-> r.raised, halts |-> r.halts,
     bin_starts |-> r.bin_starts, n_users |-> r.counts]

\* metrics.py builds_over_time: the range is that of the data
builds_over_time(df, period) ==
    LET r == FixedPeriodLoop(df, "builds", MinCreated(df), MaxCreated(df), period) IN
    [raised |-> r.raised, halts |-> r.halts,
     bin_starts |-> r.bin_starts, n_builds |-> r.counts]

(* ------------------------------ footprints ------------------------------ *)

\* mutant of type_footprint: azure and vhd are grouped under vhd
type_footprint_vhd ==
    {<<"rhel-edge-commit", "edge">>, <<"rhel-edge-installer", "edge">>,
     <<"vsphere", "private-cloud">>, <<"guest-image", "private-cloud">>,
     <<"image-installer", "bare-metal">>, <<"gcp", "gcp">>, <<"aws", "aws">>,
     <<"azure", "vhd">>, <<"vhd", "azure">>}

\* the dict type_footprint (lines 232-242) as its set of (key, value) items
type_footprint ==
    {<<"rhel-edge-commit", "edge">>, <<"rhel-edge-installer", "edge">>,
     <<"vsphere", "private-cloud">>, <<"guest-image", "private-cloud">>,
     <<"image-installer", "bare-metal">>, <<"gcp", "gcp">>, <<"aws", "aws">>,
     <<"azure", "azure">>, <<"vhd", "azure">>}

\* dict.keys() and dict[k]
DictKeys(d) == {item[1] : item \in d}
DictGet(d, k) == (CHOOSE item \in d : item[1] = k)[2]

\* mutant of ReplaceValue: a value that is no key is not passed through
ReplaceValueClosed(d, v) == IF v \in DictKeys(d) THEN DictGet(d, v) ELSE "unknown"

\* replace with a dict on one value: a key is replaced by its value, any
\* other value is kept; all values are matched before any is replaced
ReplaceValue(d, v) == IF v \in DictKeys(d) THEN DictGet(d, v) ELSE v

\* builds.replace({"image_type": type_footprint}): only that column is
\* touched, and a frame without the column is left as it is (line 244)
ReplaceColumn(df, column, d) ==
    [i \in 1..Len(df) |->
        [f \in DOMAIN df[i] |->
            IF f = column THEN ReplaceValue(d, df[i][f]) ELSE df[i][f]]]

\* fp_df.rename(columns={"image_type": "footprint"}) (line 245)
RenameColumn(df, old, new) ==
    [i \in 1..Len(df) |->
        IF old \in DOMAIN df[i]
        THEN [f \in (DOMAIN df[i] \ {old}) \cup {new} |->
                IF f = new THEN df[i][old] ELSE df[i][f]]
        ELSE df[i]]

footprints(df) ==
    [fp_df |-> RenameColumn(ReplaceColumn(df, "image_type", type_footprint),
                            "image_type", "footprint")]

(* ------------------------------ weekly_users ---------------------------- *)

\* the length of a period of weekly_users in days (plot.py line 172)
WeekDays == 7

\* datetime.isoweekday(): Monday is 1; 1 December 2023 is a Friday
IsoWeekday(t) == ((DayOf(t) + 4) % 7) + 1

\* the last Monday before the start of the data, at the same time of day
\* (report.py lines 334-336)
RECURSIVE FirstMonday(_)
FirstMonday(first_mon) ==
    IF IsoWeekday(first_mon) # 1 THEN FirstMonday(first_mon - Days(1))
    ELSE first_mon

\* the rows of the period [p_start, end) (plot.py line 173)
WeekIdxs(df, p_start, end) ==
    {i \in 1..Len(df) : Ge(df[i].created_at, p_start) /\ Lt(df[i].created_at, end)}

\* set(builds["org_id"].loc[week_idxs])
WeekUsers(df, week_idxs) == Range(Loc(Column(df, "org_id"), week_idxs))

\* the local variables of weekly_users before the loop (plot.py 161-170,
\* report.py 141-149)
WeeklyLocals(p_start, last_date) ==
    [pc |-> "loop", p_start |-> p_start, last_date |-> last_date,
     users_so_far |-> {}, n_week_users |-> <<>>, n_new_users |-> <<>>,
     start_dates |-> <<>>]

\* one pass of the loop body (plot.py 172-183, report.py 151-162)
WeeklyBody(df, l) ==
    LET end == Plus(l.p_start, Days(WeekDays))
        week_users == WeekUsers(df, WeekIdxs(df, l.p_start, end))
        new_users == week_users \ l.users_so_far
    IN  [l EXCEPT !.n_week_users = Append(@, Cardinality(week_users)),
                  !.n_new_users = Append(@, Cardinality(new_users)),
                  !.start_dates = Append(@, l.p_start),
                  !.users_so_far = @ \cup week_users,
                  !.p_start = end]

(* ------------------------------ dau_over_mau ---------------------------- *)

\* the window widths (days) of the two sliding-window calls (lines 213, 214)
DauWindow == 1
MauWindow == 30

\* a[-n:] for n >= 0: the last n elements; -0 is 0, so a[-0:] is all of a
TailSlice(a, n) ==
    IF n = 0 \/ n >= Len(a) THEN a
    ELSE [i \in 1..n |-> a[Len(a) - n + i]]

\* a / b on one-dimensional numpy arrays: elementwise with the broadcasting
\* of ArraySub; a quotient is kept as its numerator and denominator
ArrayDiv(a, b) ==
    IF Len(a) = Len(b)
    THEN [raised |-> "none",
          value |-> [i \in 1..Len(a) |-> [num |-> a[i], den |-> b[i]]]]
    ELSE IF Len(b) = 1
    THEN [raised |-> "none",
          value |-> [i \in 1..Len(a) |-> [num |-> a[i], den |-> b[1]]]]
    ELSE IF Len(a) = 1
    THEN [raised |-> "none",
          value |-> [i \in 1..Len(b) |-> [num |-> a[1], den |-> b[i]]]]
    ELSE [raised |-> "ValueError", value |-> <<>>]

\* the DAU series after the slice of line 217
SlicedDau(df) ==
    TailSlice(value_sliding_window(df, "org_id", DauWindow).n_values,
              Len(value_sliding_window(df, "org_id", MauWindow).n_values))

dau_over_mau(df) ==
    LET mau == value_sliding_window(df, "org_id", MauWindow)
        q   == ArrayDiv(SlicedDau(df), mau.n_values)
    IN  [raised |-> q.raised,
         dau_over_mau |-> q.value,
         mau_dates |-> IF q.raised = "none" THEN mau.end_dates ELSE <<>>]

(* ------------------------------ scenarios ------------------------------- *)

\* one record per day from 15 January to 10 March of year y, all of one org
JanToMar(y) ==
    LET first == DayOf(Timestamp(y, 1, 15))
        last  == DayOf(Timestamp(y, 3, 10))
    IN  MkBuilds([i \in 1..(last - first + 1) |-> <<"a", DayTick(first + i - 1, 0)>>])

\* 35 organisations, one per record of OnePerDay35
ScenarioOrgs ==
    <<"o01", "o02", "o03", "o04", "o05", "o06", "o07", "o08", "o09",
      "o10", "o11", "o12", "o13", "o14", "o15", "o16", "o17", "o18",
      "o19", "o20", "o21", "o22", "o23", "o24", "o25", "o26", "o27",
      "o28", "o29", "o30", "o31", "o32", "o33", "o34", "o35">>

\* one record per day for 35 days from 1 January 2024, each of another org
OnePerDay35 ==
    MkBuilds([i \in 1..Len(ScenarioOrgs) |->
                <<ScenarioOrgs[i], DayTick(DayOf(Timestamp(2024, 1, 1)) + i - 1, 0)>>])

Scenarios == {JanToMar(2024), JanToMar(2025), OnePerDay35}

(* ------------------------------ state machine --------------------------- *)

\* periods passed to repeat_orgs: a few ticks, and one longer than any span
HugePeriod == Days(1000)
Periods == (1..MaxPeriod) \cup {HugePeriod}

\* the values datetime.now() takes: 2 Jan 12:00, 3 Jan 00:00, 3 Jan 12:00
NowTimes == {DayTick(32, 1), DayTick(33, 0), DayTick(33, 1)}

Columns == {"org_id", "job_id"}

\* the image types of the datasets handed to footprints: the keys of the
\* table, its values, and one type the table does not know
ImageTypes ==
    {"rhel-edge-commit", "rhel-edge-installer", "vsphere", "guest-image",
     "image-installer", "gcp", "aws", "azure", "vhd",
     "edge", "private-cloud", "bare-metal", "unknown-type"}

\* a dataset with an image_type column; org and time of the rows alternate
MkTypedBuilds(types) ==
    [i \in 1..Len(types) |->
        [org_id |-> IF i % 2 = 1 THEN "a" ELSE "b",
         created_at |-> DayTick(30 + i, i % TicksPerDay),
         job_id |-> i,
         image_type |-> types[i]]]

TypedDatasets ==
    UNION {{MkTypedBuilds(t) : t \in [1..n -> ImageTypes]} : n \in 1..MaxBuilds}

\* datasets with missing timestamps, and the dataset without records:
\* created_at is 31 Dec 12:00, 1 Jan 12:00, 3 Jan 00:00 or NaT
EdgeTimes == {DayTick(30, 1), DayTick(31, 1), DayTick(33, 0), NaT}

EdgeRowSeqs(n) == [1..n -> Orgs \X EdgeTimes]

EdgeDatasets == UNION {{MkBuilds(r) : r \in EdgeRowSeqs(n)} : n \in 0..MaxBuilds}

\* periods (ticks) and window widths (days) passed by a caller: zero and a
\* negative one included
FixedPeriods == {-1, 0} \cup (1..MaxPeriod)
Windows == {-1, 0} \cup (1..MaxWindow)

\* start and end passed to the report.py functions: 30 Dec, 31 Dec 00:00
\* and 2 Jan 00:00, 3 Jan 12:00
StartTimes == {DayTick(29, 0), DayTick(30, 0)}
EndTimes == {DayTick(32, 0), DayTick(33, 1)}

Init ==
    /\ builds \in Datasets \cup Scenarios
    /\ fn = "none"
    /\ args = <<>>
    /\ locals = <<>>
    /\ ret = <<>>

RepeatOrgs ==
    \E min_builds \in 1..MaxMinBuilds, period \in Periods :
        /\ fn = "none"
        /\ fn' = "repeat_orgs"
        /\ args' = [min_builds |-> min_builds, period |-> period]
        /\ locals' = <<>>
        /\ ret' = repeat_orgs(builds, min_builds, period)
        /\ UNCHANGED builds

MonthlyValue ==
    \E column \in Columns :
        /\ fn = "none"
        /\ fn' = "monthly_value"
        /\ args' = [column |-> column]
        /\ locals' = <<>>
        /\ ret' = monthly_value(builds, column)
        /\ UNCHANGED builds

MonthlyUsers ==
    /\ fn = "none"
    /\ fn' = "monthly_users"
    /\ args' = <<>>
    /\ locals' = <<>>
    /\ ret' = monthly_users(builds)
    /\ UNCHANGED builds

MonthlyBuilds ==
    /\ fn = "none"
    /\ fn' = "monthly_builds"
    /\ args' = <<>>
    /\ locals' = <<>>
    /\ ret' = monthly_builds(builds)
    /\ UNCHANGED builds

MonthlyNewUsers ==
    /\ fn = "none"
    /\ fn' = "monthly_new_users"
    /\ args' = <<>>
    /\ locals' = [df |-> FirstBuilds(builds)]
    /\ ret' = monthly_new_users(builds)
    /\ UNCHANGED builds

ValueSlidingWindow ==
    \E column \in Columns, window \in Windows :
        /\ fn = "none"
        /\ fn' = "value_sliding_window"
        /\ args' = [column |-> column, window |-> window]
        /\ locals' = <<>>
        /\ ret' = value_sliding_window(builds, column, window)
        /\ UNCHANGED builds

\* locals.months is `months` as first assigned (line 69), before line 70
\* assigns it again
MonthlyUsersStacked ==
    /\ fn = "none"
    /\ fn' = "monthly_users_stacked"
    /\ args' = <<>>
    /\ locals' = [months |-> monthly_users(builds).month_starts]
    /\ ret' = monthly_users_stacked(builds)
    /\ UNCHANGED builds

ActiveOrgs ==
    \E min_days \in 1..MaxMinDays, recent_limit \in 0..MaxRecentLimit,
       now \in NowTimes :
        /\ fn = "none"
        /\ fn' = "active_orgs"
        /\ args' = [min_days |-> min_days, recent_limit |-> recent_limit,
                    now |-> now]
        /\ locals' = <<>>
        /\ ret' = active_orgs(builds, min_days, recent_limit, now)
        /\ UNCHANGED builds

DauOverMau ==
    /\ fn = "none"
    /\ fn' = "dau_over_mau"
    /\ args' = <<>>
    /\ locals' = [dau |-> SlicedDau(builds),
                  mau |-> value_sliding_window(builds, "org_id", MauWindow).n_values]
    /\ ret' = dau_over_mau(builds)
    /\ UNCHANGED builds

ReportBuildsOverTime ==
    \E start \in StartTimes, end \in EndTimes, period \in FixedPeriods :
        /\ fn = "none"
        /\ fn' = "report.builds_over_time"
        /\ args' = [start |-> start, end |-> end, period |-> period]
        /\ locals' = <<>>
        /\ ret' = report_builds_over_time(builds, start, end, period)
        /\ UNCHANGED builds

UsersOverTime ==
    \E start \in StartTimes, end \in EndTimes, period \in FixedPeriods :
        /\ fn = "none"
        /\ fn' = "report.users_over_time"
        /\ args' = [start |-> start, end |-> end, period |-> period]
        /\ locals' = <<>>
        /\ ret' = users_over_time(builds, start, end, period)
        /\ UNCHANGED builds

BuildsOverTime ==
    \E period \in FixedPeriods :
        /\ fn = "none"
        /\ fn' = "metrics.builds_over_time"
        /\ args' = [start |-> MinCreated(builds), end |-> MaxCreated(builds),
                    period |-> period]
        /\ locals' = <<>>
        /\ ret' = builds_over_time(builds, period)
        /\ UNCHANGED builds

\* plot.py weekly_users: the call up to the loop
WeeklyUsers ==
    /\ fn = "none"
    /\ fn' = "plot.weekly_users"
    /\ args' = <<>>
    /\ locals' = WeeklyLocals(MinCreated(builds), MaxCreated(builds))
    /\ ret' = <<>>
    /\ UNCHANGED builds

\* report.py plot_weekly_users as main calls it, with start = first_mon
PlotWeeklyUsers ==
    /\ fn = "none"
    /\ fn' = "report.plot_weekly_users"
    /\ args' = [start |-> FirstMonday(MinCreated(builds)),
                end |-> MaxCreated(builds)]
    /\ locals' = WeeklyLocals(FirstMonday(MinCreated(builds)), MaxCreated(builds))
    /\ ret' = <<>>
    /\ UNCHANGED builds

WeeklyFns == {"plot.weekly_users", "report.plot_weekly_users"}

\* while p_start < last_date: one pass of the loop
WeeklyIteration ==
    /\ fn \in WeeklyFns
    /\ locals.pc = "loop"
    /\ Lt(locals.p_start, locals.last_date)
    /\ locals' = WeeklyBody(builds, locals)
    /\ UNCHANGED <<builds, fn, args, ret>>

\* the loop is left; ret holds what is handed to the bar plot
WeeklyLoopExit ==
    /\ fn \in WeeklyFns
    /\ locals.pc = "loop"
    /\ ~Lt(locals.p_start, locals.last_date)
    /\ locals' = [locals EXCEPT !.pc = "done"]
    /\ ret' = [start_dates |-> locals.start_dates,
               n_week_users |-> locals.n_week_users,
               n_new_users |-> locals.n_new_users,
               n_ret_users |-> ArraySub(locals.n_week_users, locals.n_new_users).value]
    /\ UNCHANGED <<builds, fn, args>>

\* the call returns to the caller; nothing of it outlives the call
Return ==
    /\ fn # "none"
    /\ fn \in WeeklyFns => locals.pc = "done"
    /\ fn' = "none"
    /\ args' = <<>>
    /\ locals' = <<>>
    /\ ret' = <<>>
    /\ UNCHANGED builds

Next ==
    \/ RepeatOrgs
    \/ MonthlyValue
    \/ MonthlyUsers
    \/ MonthlyBuilds
    \/ MonthlyNewUsers
    \/ ValueSlidingWindow
    \/ MonthlyUsersStacked
    \/ ActiveOrgs
    \/ DauOverMau
    \/ WeeklyUsers
    \/ PlotWeeklyUsers
    \/ WeeklyIteration
    \/ WeeklyLoopExit
    \/ Return

Spec == Init /\ [][Next]_vars

\* The bucketing and window functions on datasets that may hold records
\* without a timestamp, or no record at all.
EdgeInit ==
    /\ builds \in EdgeDatasets
    /\ fn = "none"
    /\ args = <<>>
    /\ locals = <<>>
    /\ ret = <<>>

EdgeNext ==
    \/ MonthlyValue
    \/ ValueSlidingWindow
    \/ BuildsOverTime
    \/ ReportBuildsOverTime
    \/ UsersOverTime
    \/ Return

EdgeSpec == EdgeInit /\ [][EdgeNext]_vars

\* The categorical mapper on datasets with an image_type column; it may be
\* applied again to its own result.
Footprints ==
    /\ fn = "none"
    /\ fn' = "footprints"
    /\ args' = [builds |-> builds]
    /\ locals' = <<>>
    /\ ret' = footprints(builds)
    /\ UNCHANGED builds

FootprintsAgain ==
    /\ fn = "footprints"
    /\ fn' = "footprints(footprints)"
    /\ args' = [builds |-> ret.fp_df]
    /\ locals' = [once |-> ret.fp_df]
    /\ ret' = footprints(ret.fp_df)
    /\ UNCHANGED builds

FootprintInit ==
    /\ builds \in TypedDatasets
    /\ fn = "none"
    /\ args = <<>>
    /\ locals = <<>>
    /\ ret = <<>>

FootprintNext ==
    \/ Footprints
    \/ FootprintsAgain
    \/ Return

FootprintSpec == FootprintInit /\ [][FootprintNext]_vars

(* ------------------------------ vocabulary of the properties ------------ *)

OrgsOf(df) == {df[i].org_id : i \in 1..Len(df)}

DatesOf(df, org) == {df[i].created_at : i \in {j \in 1..Len(df) : df[j].org_id = org}}

NumBuilds(df, org) == Cardinality({i \in 1..Len(df) : df[i].org_id = org})

\* some min_builds consecutive builds of org, in ascending order of
\* created_at, span strictly less than period
HasFullRun(df, org, min_builds, period) ==
    LET s == OrgBuildDates(df, org) IN
    \E i \in 1..(Len(s) - min_builds + 1) : s[i + min_builds - 1] - s[i] < period

YearMonth(t) == [year |-> Civil(t).year, month |-> Civil(t).month]

FirstOfMonth(ym) == Timestamp(ym.year, ym.month, 1)

\* the half-open calendar month [m, m + 1 month) that starts at m
InMonthOf(m, t) == m <= t /\ t < FirstOfMonth(NextMonth(YearMonth(m)))

\* the calendar months the model's time range can touch
YearMonths ==
    {Epoch} \cup [year : (Epoch.year + 1)..(Epoch.year + 2), month : 1..12]

(* ------------------------------ repeat_orgs: C1, C2, C3 ----------------- *)

\* C1: for min_builds >= 2 (and period > 0) repeat_orgs returns exactly the
\* orgs that have some min_builds consecutive builds spanning strictly less
\* than period, i.e. a full run of min_builds - 1 gaps summing to less than
\* period.
C1_RepeatOrgsExactlyFullRuns ==
    (fn = "repeat_orgs" /\ args.min_builds >= 2)
        => ret.rep_orgs = {org \in OrgsOf(builds) :
                    HasFullRun(builds, org, args.min_builds, args.period)}

\* C2: an org with fewer than min_builds builds is never in the result of
\* repeat_orgs, for min_builds >= 2 and any period.
C2_FewerThanMinBuildsNeverRepeat ==
    (fn = "repeat_orgs" /\ args.min_builds >= 2)
        => \A org \in ret.rep_orgs : NumBuilds(builds, org) >= args.min_builds

\* C3: with min_builds = 1 (and period > 0) repeat_orgs returns every org
\* that has at least one build, those with exactly one build included.
C3_MinBuildsOneReturnsEveryOrg ==
    (fn = "repeat_orgs" /\ args.min_builds = 1 /\ args.period > 0)
        => ret.rep_orgs = OrgsOf(builds)

(* ------------------------------ monthly_value: C4, C5, C6 --------------- *)

\* C4: the bucket starts of monthly_value are the consecutive first-of-month
\* timestamps from the month of the minimum created_at through the month of
\* the maximum created_at, ascending, one per month; the half-open buckets
\* [m, m + 1 month) leave no gap and do not overlap, and every record lies in
\* exactly one bucket.
C4_MonthBucketsCoverRange ==
    fn = "monthly_value" =>
        LET ms == ret.month_starts
            n  == Len(ms)
        IN  /\ n >= 1
            /\ Len(ret.n_values) = n
            /\ ms[1] = FirstOfMonth(YearMonth(MinCreated(builds)))
            /\ ms[n] = FirstOfMonth(YearMonth(MaxCreated(builds)))
            /\ \A i \in 1..n : Civil(ms[i]).day = 1 /\ TimeOfDay(ms[i]) = 0
            /\ \A i \in 1..(n - 1) :
                    /\ ms[i] < ms[i + 1]
                    /\ YearMonth(ms[i + 1]) = NextMonth(YearMonth(ms[i]))
                    /\ \A t \in ms[i]..ms[i + 1] :
                            InMonthOf(ms[i], t) <=> t < ms[i + 1]
            /\ \A j \in 1..Len(builds) :
                    Cardinality({i \in 1..n :
                        InMonthOf(ms[i], builds[j].created_at)}) = 1

\* three buckets across the turn of the year, with a record exactly on a
\* bucket start
C4_Witness ==
    /\ fn = "monthly_value"
    /\ Len(ret.month_starts) = 3
    /\ Civil(ret.month_starts[1]).year < Civil(ret.month_starts[2]).year
    /\ \E j \in 1..Len(builds) : builds[j].created_at = ret.month_starts[2]

\* C5: the count paired with bucket start m is the number of distinct values
\* of the column among the records with m <= created_at < m + 1 month; a
\* month of the range without records is present with count 0; one record
\* per day from 15 January to 10 March gives 17, 28 (29 in a leap year), 10.
C5_MonthCountsAreDistinctValues ==
    fn = "monthly_value" =>
        LET ns == ret.n_values
            ms == ret.month_starts
            ValuesIn(m) ==
                {builds[j][args.column] :
                    j \in {k \in 1..Len(builds) : InMonthOf(m, builds[k].created_at)}}
        IN  /\ Len(ns) = Len(ms)
            /\ \A i \in 1..Len(ms) : ns[i] = Cardinality(ValuesIn(ms[i]))
            /\ \A ym \in YearMonths :
                    ( /\ FirstOfMonth(YearMonth(MinCreated(builds))) <= FirstOfMonth(ym)
                      /\ FirstOfMonth(ym) <= MaxCreated(builds)
                      /\ ValuesIn(FirstOfMonth(ym)) = {} )
                    => \E i \in 1..Len(ms) : ms[i] = FirstOfMonth(ym) /\ ns[i] = 0
            /\ (builds = JanToMar(2025) /\ args.column = "job_id")
                    => ns = <<17, 28, 10>>
            /\ (builds = JanToMar(2024) /\ args.column = "job_id")
                    => ns = <<17, 29, 10>>

\* distinct orgs are counted: a month with two records of one org counts 1,
\* and an empty month in the middle counts 0
C5_Witness ==
    /\ fn = "monthly_value"
    /\ args.column = "org_id"
    /\ Len(ret.n_values) = 3
    /\ ret.n_values[1] = 1
    /\ ret.n_values[2] = 0
    /\ Cardinality({j \in 1..Len(builds) :
            InMonthOf(ret.month_starts[1], builds[j].created_at)}) = 2

\* C6: when job_id is unique per record, the counts of monthly_builds sum to
\* the number of records.
C6_MonthlyBuildsConserveRecords ==
    ( /\ fn = "monthly_builds"
      /\ \A i, j \in 1..Len(builds) :
            builds[i].job_id = builds[j].job_id => i = j )
        => Sum(ret.n_values) = Len(builds)

\* three records over two months, one of them exactly on the month boundary
C6_Witness ==
    /\ fn = "monthly_builds"
    /\ Len(builds) = 3
    /\ Len(ret.n_values) = 2
    /\ ret.n_values[1] >= 1
    /\ \E j \in 1..Len(builds) : builds[j].created_at = ret.month_starts[2]

(* ------------------------------ value_sliding_window: C7 ---------------- *)

\* C7: for width W >= 1 days the window ends of value_sliding_window are
\* exactly t_min + W days + k days for every k >= 0 whose end is strictly
\* before t_max, ascending, and the count paired with end e is the number of
\* distinct values of the column among the records with
\* e - W days <= created_at < e.
C7_SlidingWindowEndsAndCounts ==
    (fn = "value_sliding_window" /\ args.window >= 1) =>
        LET ns == ret.n_values
            es == ret.end_dates
            t_min == MinCreated(builds)
            t_max == MaxCreated(builds)
            W == args.window * TicksPerDay
        IN  /\ Len(ns) = Len(es)
            /\ \A i \in 1..Len(es) :
                    /\ es[i] = t_min + W + (i - 1) * TicksPerDay
                    /\ es[i] < t_max
            /\ t_min + W + Len(es) * TicksPerDay >= t_max
            /\ \A i \in 1..Len(es) :
                    ns[i] = Cardinality(
                        {builds[j][args.column] :
                            j \in {k \in 1..Len(builds) :
                                /\ es[i] - W <= builds[k].created_at
                                /\ builds[k].created_at < es[i]}})

\* two windows of one day: the first holds two orgs, the second is empty
C7_Witness ==
    /\ fn = "value_sliding_window"
    /\ args.column = "org_id"
    /\ args.window = 1
    /\ Len(ret.end_dates) = 2
    /\ ret.n_values = <<2, 0>>

(* ------------------------------ monthly_new_users: C8 ------------------- *)

\* C8: the reduced dataset of monthly_new_users holds exactly one row per
\* distinct org_id of the input, with created_at the minimum created_at of
\* that org; so every org is counted as new in exactly one month bucket, the
\* month of its first build, and the new-user counts sum to the number of
\* distinct orgs.
C8_FirstBuildsOneRowPerOrg ==
    fn = "monthly_new_users" =>
        LET df == locals.df
            ns == ret.n_values
            ms == ret.month_starts
        IN  /\ \A k \in 1..Len(df) : df[k].org_id \in OrgsOf(builds)
            /\ \A org \in OrgsOf(builds) :
                    /\ Cardinality({k \in 1..Len(df) : df[k].org_id = org}) = 1
                    /\ \A k \in 1..Len(df) : df[k].org_id = org =>
                            /\ df[k].created_at \in DatesOf(builds, org)
                            /\ \A t \in DatesOf(builds, org) : df[k].created_at <= t
                    /\ Cardinality({i \in 1..Len(ms) :
                            \E t \in DatesOf(builds, org) :
                                /\ \A u \in DatesOf(builds, org) : t <= u
                                /\ InMonthOf(ms[i], t)}) = 1
            /\ \A i \in 1..Len(ms) :
                    ns[i] = Cardinality({org \in OrgsOf(builds) :
                                \E t \in DatesOf(builds, org) :
                                    /\ \A u \in DatesOf(builds, org) : t <= u
                                    /\ InMonthOf(ms[i], t)})
            /\ Sum(ns) = Cardinality(OrgsOf(builds))

\* two orgs first seen in different months; one of them has a later build
\* listed before its first one
C8_Witness ==
    /\ fn = "monthly_new_users"
    /\ Len(locals.df) = 2
    /\ Len(ret.n_values) >= 2
    /\ \E i, j \in 1..Len(builds) :
            /\ i < j
            /\ builds[i].org_id = builds[j].org_id
            /\ builds[i].created_at > builds[j].created_at

(* ------------------------------ monthly_users_stacked: C9 --------------- *)

\* C9: in every calendar-month bucket, returning users = (monthly_users
\* count) - (monthly_new_users count) is >= 0.
C9_ReturningUsersNeverNegative ==
    (fn = "monthly_users_stacked" /\ ret.raised = "none") =>
        \A i \in 1..Len(ret.old_user_counts) : ret.old_user_counts[i] >= 0

(* ------------------------------ active_orgs: C10 ------------------------ *)

\* C10: with datetime.now() = now, active_orgs returns exactly the orgs whose
\* builds fall on at least min_days distinct calendar days and whose most
\* recent build day is strictly after now - recent_limit days; an org whose
\* most recent day equals the cutoff is not returned.
C10_ActiveOrgsExactly ==
    fn = "active_orgs" =>
        LET DaysOf(org) == {t \div TicksPerDay : t \in DatesOf(builds, org)}
            cutoff == args.now - args.recent_limit * TicksPerDay
            LastDay(org) == CHOOSE d \in DaysOf(org) : \A e \in DaysOf(org) : e <= d
        IN  /\ Range(ret.recent_orgs) =
                {org \in OrgsOf(builds) :
                    /\ Cardinality(DaysOf(org)) >= args.min_days
                    /\ LastDay(org) * TicksPerDay > cutoff}
            /\ \A org \in OrgsOf(builds) :
                    LastDay(org) * TicksPerDay = cutoff => org \notin Range(ret.recent_orgs)
            /\ \A i, j \in 1..Len(ret.recent_orgs) : ret.recent_orgs[i] = ret.recent_orgs[j] => i = j

\* one org is returned; another has enough build days but its most recent
\* day equals the cutoff and is left out
C10_Witness ==
    /\ fn = "active_orgs"
    /\ Len(ret.recent_orgs) = 1
    /\ \E org \in OrgsOf(builds) :
            /\ org \notin Range(ret.recent_orgs)
            /\ Cardinality({t \div TicksPerDay : t \in DatesOf(builds, org)})
                    >= args.min_days
            /\ \E t \in DatesOf(builds, org) :
                    /\ (t \div TicksPerDay) * TicksPerDay
                            = args.now - args.recent_limit * TicksPerDay
                    /\ \A u \in DatesOf(builds, org) : u \div TicksPerDay <= t \div TicksPerDay

(* ------------------------------ dau_over_mau: C11 ----------------------- *)

\* the number of distinct orgs with a record in [lo, hi)
DistinctOrgsIn(df, lo, hi) ==
    Cardinality({df[j].org_id :
        j \in {k \in 1..Len(df) : lo <= df[k].created_at /\ df[k].created_at < hi}})

\* C11: for every non-empty dataset, also one spanning no more than 30 days
\* (empty MAU series), dau_over_mau truncates the DAU series to the length
\* of the MAU series and returns exactly one ratio per returned MAU
\* window-end date e, namely (distinct orgs in [e - 1 day, e)) over
\* (distinct orgs in [e - 30 days, e)); on the 35-day dataset with one new
\* org per day the final entry is 1/30.
C11_DauOverMauAligned ==
    fn = "dau_over_mau" =>
        LET rs == ret.dau_over_mau
            es == ret.mau_dates
        IN  /\ ret.raised = "none"
            /\ Len(locals.dau) = Len(locals.mau)
            /\ Len(rs) = Len(es)
            /\ \A i \in 1..Len(es) :
                    /\ rs[i].num = DistinctOrgsIn(builds, es[i] - Days(1), es[i])
                    /\ rs[i].den = DistinctOrgsIn(builds, es[i] - Days(30), es[i])
            /\ builds = OnePerDay35 =>
                    /\ Len(rs) >= 1
                    /\ rs[Len(rs)] = [num |-> 1, den |-> 30]

(* ------------------------------ fixed-period buckets: C12, C13 ---------- *)

FixedFns ==
    {"report.builds_over_time", "report.users_over_time", "metrics.builds_over_time"}

\* the counts returned by the fixed-period function of the current call
FixedCounts == IF fn = "report.users_over_time" THEN ret.n_users ELSE ret.n_builds

\* what the current call counts among the records with created_at in [lo, hi)
CountedIn(lo, hi) ==
    LET rows == {j \in 1..Len(builds) :
                    /\ builds[j].created_at # NaT
                    /\ lo <= builds[j].created_at
                    /\ builds[j].created_at < hi}
    IN  IF fn = "report.users_over_time"
        THEN Cardinality({builds[j].org_id : j \in rows})
        ELSE Cardinality(rows)

\* a fixed-period call with a positive period on a range given by timestamps
FixedCall == fn \in FixedFns /\ args.period > 0 /\ args.start # NaT

\* C12 as stated: with explicit start, end and P > 0 the emitted bucket
\* starts are exactly start + k*P for every k >= 0 with start + k*P < end,
\* ascending (emission stops only before a bucket that would start at or
\* after end), and each count is the number of records (resp. distinct
\* org_ids) with created_at in [start + k*P, start + (k+1)*P).
C12_BucketForEveryStartBeforeEnd ==
    FixedCall =>
        LET bs == ret.bin_starts
            P  == args.period
        IN  /\ ret.raised = "none" /\ ret.halts
            /\ Len(FixedCounts) = Len(bs)
            /\ \A i \in 1..Len(bs) :
                    /\ bs[i] = args.start + (i - 1) * P
                    /\ bs[i] < args.end
                    /\ FixedCounts[i] = CountedIn(bs[i], bs[i] + P)
            /\ args.start + Len(bs) * P >= args.end

\* C12 amended: the emitted bucket starts are exactly start + k*P for every
\* k >= 0 with start + (k+1)*P < end, ascending: a bucket is emitted only if
\* it ends strictly before end; each count is the number of records (resp.
\* distinct org_ids) with created_at in [start + k*P, start + (k+1)*P).
C12_BucketForEveryEndBeforeEnd ==
    FixedCall =>
        LET bs == ret.bin_starts
            P  == args.period
        IN  /\ ret.raised = "none" /\ ret.halts
            /\ Len(FixedCounts) = Len(bs)
            /\ \A i \in 1..Len(bs) :
                    /\ bs[i] = args.start + (i - 1) * P
                    /\ bs[i] + P < args.end
                    /\ FixedCounts[i] = CountedIn(bs[i], bs[i] + P)
            /\ args.start + (Len(bs) + 1) * P >= args.end

\* two buckets of distinct-org counts, the second holding two records of
\* one org, one of them exactly on the bucket start; a further bucket would
\* start before end
C12_Witness ==
    /\ fn = "report.users_over_time"
    /\ args.period > 0
    /\ Len(ret.bin_starts) = 2
    /\ ret.n_users[2] = 1
    /\ Cardinality({j \in 1..Len(builds) :
            /\ ret.bin_starts[2] <= builds[j].created_at
            /\ builds[j].created_at < ret.bin_starts[2] + args.period}) = 2
    /\ \E j \in 1..Len(builds) : builds[j].created_at = ret.bin_starts[2]
    /\ args.start + 2 * args.period < args.end

\* C13: in fixed-period mode with P > 0 a final period that starts before
\* end but extends past end is never emitted: no emitted bucket [s, s + P)
\* reaches beyond end, and the records whose created_at lies in that dropped
\* tail period are counted in no bucket.
C13_TailPeriodDropped ==
    FixedCall =>
        LET bs == ret.bin_starts
            P  == args.period
            tail == args.start + Len(bs) * P
            InTail(j) == /\ builds[j].created_at # NaT
                         /\ tail <= builds[j].created_at
                         /\ builds[j].created_at < tail + P
        IN  /\ \A i \in 1..Len(bs) : bs[i] + P <= args.end
            /\ (tail < args.end /\ tail + P > args.end) =>
                    /\ \A i \in 1..Len(bs) : bs[i] # tail
                    /\ \A j \in 1..Len(builds) : InTail(j) =>
                            \A i \in 1..Len(bs) :
                                ~(bs[i] <= builds[j].created_at
                                    /\ builds[j].created_at < bs[i] + P)
                    /\ fn # "report.users_over_time" =>
                            Sum(FixedCounts) =
                                Cardinality({j \in 1..Len(builds) :
                                    /\ builds[j].created_at # NaT
                                    /\ args.start <= builds[j].created_at
                                    /\ builds[j].created_at < tail})

\* one bucket is emitted with a record in it; the next period starts before
\* end, extends past it and holds a record that is left out
C13_Witness ==
    /\ fn = "report.builds_over_time"
    /\ args.period > 0
    /\ Len(ret.bin_starts) = 1
    /\ ret.n_builds = <<1>>
    /\ args.start + args.period < args.end
    /\ args.start + 2 * args.period > args.end
    /\ \E j \in 1..Len(builds) :
            /\ args.start + args.period <= builds[j].created_at
            /\ builds[j].created_at < args.end

(* ------------------------------ error outcomes: C14, C15 ---------------- *)

\* the current call ended in an error surfaced to the caller
ErrorOutcome == ret.raised # "none"

\* C14: calling monthly_value, value_sliding_window or builds_over_time on a
\* dataset with zero records ends in an error outcome surfaced to the
\* caller; none of them returns an empty or zero-filled result instead.
C14_EmptyDatasetIsAnError ==
    ( /\ fn \in {"monthly_value", "value_sliding_window", "metrics.builds_over_time"}
      /\ Len(builds) = 0 )
        => ErrorOutcome

\* C15: on a non-empty dataset (here: one with a valid timestamp) a
\* non-positive period passed to
\* builds_over_time / users_over_time, or a non-positive window width passed
\* to value_sliding_window, is rejected with an error outcome: the call
\* neither returns a series of counts nor loops forever.
C15_NonPositiveSpecIsAnError ==
    ( /\ Len(builds) > 0
      /\ MinCreated(builds) # NaT
      /\ \/ fn \in FixedFns /\ args.period <= 0
         \/ fn = "value_sliding_window" /\ args.window <= 0 )
        => ErrorOutcome

(* ------------------------------ footprints: C16, C17 -------------------- *)

\* the footprint the table of the documentation gives to an image type
DocFootprint(t) ==
    CASE t \in {"rhel-edge-commit", "rhel-edge-installer"} -> "edge"
      [] t \in {"vsphere", "guest-image"} -> "private-cloud"
      [] t = "image-installer" -> "bare-metal"
      [] t \in {"azure", "vhd"} -> "azure"
      [] t = "gcp" -> "gcp"
      [] t = "aws" -> "aws"
      [] OTHER -> t

\* C16: footprints returns a dataset with the same number of records in the
\* same order; each record's footprint is the table value of its image_type
\* when that is a key of the table and the unchanged image_type otherwise;
\* it never fails on an unknown category and changes no other attribute;
\* [vhd, aws, unknown-type] gives [azure, aws, unknown-type].
C16_FootprintsMapsEachRecord ==
    fn = "footprints" =>
        LET fp == ret.fp_df IN
        /\ Len(fp) = Len(builds)
        /\ \A i \in 1..Len(builds) :
                /\ DOMAIN fp[i] = (DOMAIN builds[i] \ {"image_type"}) \cup {"footprint"}
                /\ fp[i].footprint = DocFootprint(builds[i].image_type)
                /\ \A f \in DOMAIN builds[i] \ {"image_type"} : fp[i][f] = builds[i][f]
        /\ Column(builds, "image_type") = <<"vhd", "aws", "unknown-type">>
                => Column(fp, "footprint") = <<"azure", "aws", "unknown-type">>

\* the scenario: a mapped many-to-one type, a type mapped to itself and an
\* unknown type
C16_Witness ==
    /\ fn = "footprints"
    /\ Column(builds, "image_type") = <<"vhd", "aws", "unknown-type">>
    /\ Column(ret.fp_df, "footprint") = <<"azure", "aws", "unknown-type">>

\* C17: the mapping is idempotent: for every category c, mapped or not,
\* mapping the footprint of c again yields the same footprint, so applying
\* the mapper twice gives the same result as applying it once.
C17_MappingIdempotent ==
    /\ fn = "footprints" =>
            \A i \in 1..Len(builds) :
                ReplaceValue(type_footprint, ret.fp_df[i].footprint)
                    = ret.fp_df[i].footprint
    /\ fn = "footprints(footprints)" =>
            /\ ret.fp_df = locals.once
            /\ \A i \in 1..Len(builds) :
                    ReplaceValue(type_footprint,
                        ReplaceValue(type_footprint, builds[i].image_type))
                    = ret.fp_df[i].footprint

\* the mapper has been applied twice to records whose footprints are a key
\* of the table (azure, from vhd) and no key of it (edge)
C17_Witness ==
    /\ fn = "footprints(footprints)"
    /\ \E i, j \in 1..Len(builds) :
            /\ builds[i].image_type = "vhd"
            /\ ret.fp_df[i].footprint = "azure"
            /\ builds[j].image_type = "rhel-edge-installer"
            /\ ret.fp_df[j].footprint = "edge"

(* ------------------------------ missing timestamps: C18 ----------------- *)

\* the dataset without the records whose created_at is NaT
DropNaT(df) == Loc(df, {i \in 1..Len(df) : df[i].created_at # NaT})

\* C18: in a dataset with at least one valid timestamp a record whose
\* created_at is NaT is counted in no calendar-month bucket, no sliding
\* window and no fixed-period bucket and moves no bucket boundary:
\* monthly_value, value_sliding_window and builds_over_time return the same
\* result as on the dataset with those records removed (for monthly_value
\* of the unique job_id, the counts sum to the number of valid records).
C18_NaTRecordsAreIgnored ==
    (fn # "none" /\ ValidCreated(builds) # {}) =>
        LET valid == DropNaT(builds) IN
        /\ fn = "monthly_value" =>
                /\ ret = monthly_value(valid, args.column)
                /\ ret.raised = "none"
                /\ args.column = "job_id" => Sum(ret.n_values) = Len(valid)
        /\ fn = "value_sliding_window" =>
                ret = value_sliding_window(valid, args.column, args.window)
        /\ fn = "metrics.builds_over_time" =>
                /\ ret = builds_over_time(valid, args.period)
                /\ args.start = MinCreated(valid)
                /\ args.end = MaxCreated(valid)
        /\ fn = "report.builds_over_time" =>
                ret = report_builds_over_time(valid, args.start, args.end, args.period)
        /\ fn = "report.users_over_time" =>
                ret = users_over_time(valid, args.start, args.end, args.period)

\* month buckets of a dataset whose first record has no timestamp and whose
\* other two records fall in different months
C18_Witness ==
    /\ fn = "monthly_value"
    /\ args.column = "job_id"
    /\ Len(builds) = 3
    /\ builds[1].created_at = NaT
    /\ ret.n_values = <<1, 1>>

(* ------------------------------ monthly_users_stacked: C19 -------------- *)

\* C19: for every non-empty dataset monthly_users(builds) and
\* monthly_new_users(builds) return bucket-start sequences of the same
\* length with the same month starts at every index, also when no org makes
\* its first build in the last month(s) of the data, so the elementwise
\* subtraction user_counts - new_user_counts of monthly_users_stacked is
\* defined for every bucket.
C19_NewUserMonthsMatchUserMonths ==
    fn = "monthly_users_stacked" =>
        /\ Len(ret.months) = Len(locals.months)
        /\ \A i \in 1..Len(ret.months) : ret.months[i] = locals.months[i]
        /\ Len(ret.new_user_counts) = Len(ret.user_counts)
        /\ ret.raised = "none"
        /\ Len(ret.old_user_counts) = Len(ret.user_counts)

(* ------------------------------ weekly_users: C20 ----------------------- *)

\* the orgs with a record in [lo, hi)
OrgsIn(df, lo, hi) ==
    {df[j].org_id :
        j \in {k \in 1..Len(df) : lo <= df[k].created_at /\ df[k].created_at < hi}}

\* C20: in the loop of weekly_users, after each iteration users_so_far is
\* the set of orgs with a record in [first_date, end of the current bucket);
\* in every bucket the new-user count is at most the week's user count
\* (returning users >= 0); and every org of the dataset is counted as new in
\* exactly one bucket, so the new-user counts sum to the number of distinct
\* orgs of the dataset, for every non-empty dataset, also one whose last
\* timestamp is first_date + 7k days.
C20_WeeklyNewUsersCountEveryOrg ==
    fn \in WeeklyFns =>
        /\ Len(locals.start_dates) >= 1 =>
                locals.users_so_far =
                    OrgsIn(builds, MinCreated(builds), locals.p_start)
        /\ Len(locals.n_new_users) = Len(locals.n_week_users)
        /\ \A i \in 1..Len(locals.n_new_users) :
                locals.n_new_users[i] <= locals.n_week_users[i]
        /\ locals.pc = "done" =>
                /\ \A i \in 1..Len(ret.n_ret_users) : ret.n_ret_users[i] >= 0
                /\ locals.users_so_far = OrgsOf(builds)
                /\ Sum(ret.n_new_users) = Cardinality(OrgsOf(builds))

(* ------------------------------ the latest record: C21 ------------------ *)

\* the records that carry the maximum created_at
MaxRows(df) == {j \in 1..Len(df) : df[j].created_at = MaxCreated(df)}

\* C21: in value_sliding_window (any W >= 1) and in metrics.builds_over_time
\* (start = minimum timestamp, end = maximum timestamp, period > 0) every
\* emitted window or bucket ends strictly before the maximum timestamp of
\* the dataset, so the records carrying the maximum created_at contribute
\* to no emitted count; in particular the counts of builds_over_time sum to
\* strictly less than the number of records.
C21_LatestRecordNeverCounted ==
    ValidCreated(builds) # {} =>
        LET t_max == MaxCreated(builds)
            Earlier(lo, hi) ==
                {j \in 1..Len(builds) :
                    /\ builds[j].created_at # NaT
                    /\ lo <= builds[j].created_at
                    /\ builds[j].created_at < hi
                    /\ builds[j].created_at < t_max}
        IN
        /\ (fn = "value_sliding_window" /\ args.window >= 1) =>
                LET W == Days(args.window) IN
                \A i \in 1..Len(ret.end_dates) :
                    /\ ret.end_dates[i] < t_max
                    /\ \A j \in MaxRows(builds) :
                            ~(ret.end_dates[i] - W <= builds[j].created_at
                                /\ builds[j].created_at < ret.end_dates[i])
                    /\ ret.n_values[i] =
                            Cardinality({builds[j][args.column] :
                                j \in Earlier(ret.end_dates[i] - W, ret.end_dates[i])})
        /\ (fn = "metrics.builds_over_time" /\ args.period > 0) =>
                /\ args.end = t_max
                /\ \A i \in 1..Len(ret.bin_starts) :
                        /\ ret.bin_starts[i] + args.period < t_max
                        /\ \A j \in MaxRows(builds) :
                                ~(ret.bin_starts[i] <= builds[j].created_at
                                    /\ builds[j].created_at < ret.bin_starts[i] + args.period)
                        /\ ret.n_builds[i] =
                                Cardinality(Earlier(ret.bin_starts[i],
                                                    ret.bin_starts[i] + args.period))
                /\ Sum(ret.n_builds) <= Len(builds) - Cardinality(MaxRows(builds))
                /\ Sum(ret.n_builds) < Len(builds)

\* two buckets that count every record but the latest one
C21_Witness ==
    /\ fn = "metrics.builds_over_time"
    /\ args.period > 0
    /\ Len(builds) = 3
    /\ Len(ret.bin_starts) = 2
    /\ Sum(ret.n_builds) = 2
    /\ Cardinality(MaxRows(builds)) = 1

====
